---- MODULE Spec2Model ----
(***************************************************************************)
(* rcrosshair: a layer-shell overlay that presents a static or animated    *)
(* crosshair image.  The model covers the App state of src/app.rs, its     *)
(* event handlers (configure, frame, closed), App::draw, the construction  *)
(* of App in src/main.rs and the dispatch loop of main; and, each under a  *)
(* specification of its own, load_cache / save_cache of                    *)
(* src/cache_params.rs, process_buffer of src/crosshair.rs and configure's *)
(* size arithmetic at full u32 width.                                      *)
(*                                                                         *)
(* Sizes are in pixels, capacities and lengths in bytes, times in ms.      *)
(* Within the bounds below every u32/i32/usize expression of the handlers  *)
(* stays far inside its type, so their arithmetic is written unwrapped;    *)
(* SpecSize is where it is not.                                            *)
(***************************************************************************)
EXTENDS Integers, Sequences, FiniteSets, TLC

(* ------------------------------ bounds --------------------------------- *)
MaxImage == 2
MaxDim == 2
MaxTicks == 3
MaxCallbacks == 2
MaxBehindClose == 1
MaxOps == 3

(* --------------------------- program constants ------------------------- *)
BytesPerPixel == 4
DefaultLogicalSize == <<1920, 1080>>

(* ------------------------------ inputs --------------------------------- *)
ImageDims == 1..MaxImage
ProposedDims == 0..MaxDim
(* --target-x, --target-y: an optional argument is <<>> (absent) or <<v>> *)
TargetArgs == {<< <<>>, <<>> >>, << <<32>>, <<32>> >>}
DelaySets == {<<100, 200, 50>>, <<150>>}
(* ms the clock may have moved on between two readings *)
TickSteps == {150}
MaxTime == MaxTicks * 150
LogicalSizes == {<<1920, 1080>>, <<7, 5>>}
(* The first output as configure finds it: none enumerated (or no info    *)
(* for it), info without a logical size, info with one.                   *)
NoOutput == [state |-> "none", logical_size |-> <<>>]
OutputStates ==
    {NoOutput, [state |-> "info", logical_size |-> <<>>]}
    \cup {[state |-> "info", logical_size |-> s] : s \in LogicalSizes}
StaticImages ==
    {[kind |-> "static", w |-> iw, h |-> ih, delays |-> <<>>] :
        iw \in ImageDims, ih \in ImageDims}
(* animations are taken square *)
GifImages ==
    {[kind |-> "gif", w |-> n, h |-> n, delays |-> d] :
        n \in ImageDims, d \in DelaySets}
CreateOutcomes == {"ok", "create_err", "attach_err"}

VARIABLES
    pc,               \* main: "dispatch" (inside the loop), "done", "panicked"
    exit, first_configure, positioned,
    pool,             \* pool.len(), bytes
    width, height,
    image,            \* [kind, w, h, delays]; fixed after load
    current_frame, last_frame_time,
    target_x, target_y,
    now,              \* the latest reading of the clock (Instant::now)
    output,           \* what output_state knows of the first output
    anchor, margin,   \* layer anchor and <<top, left>> margin
    callbacks,        \* <<requested, pending>> wl_surface frame callbacks
    draw_result,      \* outcome of draw in the latest handler, "none" if no draw
    commits,          \* layer/surface commits issued by the latest handler
    frame_reqs,       \* frame callbacks requested by the latest handler
    canvas,           \* buffer bytes written by the latest handler's draw
    observed,         \* frame indices seen at a 150 ms notification cadence
    behind_close,     \* events dispatched after closed in the same batch
    event,            \* the latest step: which handler ran, or "exit"
    alloc,            \* SlotPool::new in the latest handler: "none", "ok", "failed"
    cache,            \* the Cache value handed to save_cache
    fs,               \* the cache path on disk: [parent, file]
    loaded,           \* what load_cache returned last, <<>> before any call
    cache_ops,        \* the calls made so far: "save_ok", "save_err", "load"
    pixel,            \* process_buffer's input pixel <<r, g, b, a>>
    opacity,          \* process_buffer's opacity, in quarters
    px_data,          \* process_buffer's output bytes, <<>> before the call
    new_size,         \* configure.new_size where it is kept, <<>> if none
    needed_u32        \* configure's `needed` at u32 width: [result, pixels]

vars == <<pc, exit, first_configure, positioned, pool, width, height, image,
          current_frame, last_frame_time, target_x, target_y, now, output,
          anchor, margin, callbacks, draw_result, commits, frame_reqs,
          canvas, observed, behind_close, event, alloc, cache, fs, loaded,
          cache_ops, pixel, opacity, px_data, new_size, needed_u32>>

(* the state of cache_params.rs, which no handler of App touches *)
cache_vars == <<cache, fs, loaded, cache_ops>>

(* process_buffer's argument and result *)
pixel_vars == <<pixel, opacity, px_data>>

(* configure's size arithmetic at full u32 width *)
size_vars == <<new_size, needed_u32>>

(* the state of App and of the dispatch loop *)
app_vars == <<pc, exit, first_configure, positioned, pool, width, height, image,
              current_frame, last_frame_time, target_x, target_y, now, output,
              anchor, margin, callbacks, draw_result, commits, frame_reqs,
              canvas, observed, behind_close, event, alloc>>

Max(a, b) == IF a >= b THEN a ELSE b

IsGif == image.kind = "gif"
NumFrames == Len(image.delays)

(* Bytes of one frame: image.w * image.h * 4 bytes, as process_buffer      *)
(* emits them; the byte values stand for arbitrary pixel data and are kept *)
(* non-zero so that copied bytes differ from cleared ones.                 *)
FrameData(k) ==
    [i \in 1..(image.w * image.h * BytesPerPixel) |-> 1 + ((i + k) % 255)]

(* ------------------------------ main ----------------------------------- *)
(* App as main builds it, for an image of `images` and arguments `targets` *)
AppInit(images, targets) ==
    /\ image \in images
    /\ pool = image.w * image.h * BytesPerPixel
    /\ width = image.w
    /\ height = image.h
    /\ \E t \in targets :
         /\ target_x = IF t[1] = <<>> THEN image.w \div 2 ELSE t[1][1]
         /\ target_y = IF t[2] = <<>> THEN image.h \div 2 ELSE t[2][1]
    /\ pc = "dispatch"
    /\ exit = FALSE
    /\ first_configure = TRUE
    /\ positioned = FALSE
    /\ current_frame = 0
    /\ last_frame_time = 0
    /\ now = 0
    /\ output = NoOutput
    /\ anchor = "none"
    /\ margin = <<0, 0>>
    /\ callbacks = <<0, 0>>
    /\ draw_result = "none"
    /\ commits = 0
    /\ frame_reqs = 0
    /\ canvas = <<>>
    /\ observed = <<0>>
    /\ behind_close = 0
    /\ event = "none"
    /\ alloc = "none"

(* no cache at hand: main as given never calls load_cache or save_cache *)
NoCache ==
    /\ cache = <<>>
    /\ fs = [parent |-> "exists", file |-> [kind |-> "absent"]]
    /\ loaded = <<>>
    /\ cache_ops = <<>>

(* the image is already premultiplied when App is built *)
NoPixel ==
    /\ pixel = <<>>
    /\ opacity = 0
    /\ px_data = <<>>

NotComputed == [result |-> "none", pixels |-> 0]

NoProposal ==
    /\ new_size = <<>>
    /\ needed_u32 = NotComputed

InitWith(images, targets) ==
    AppInit(images, targets) /\ NoCache /\ NoPixel /\ NoProposal

Init == InitWith(StaticImages \cup GifImages, TargetArgs)

(* ------------------------ event dispatch -------------------------------- *)
(* blocking_dispatch hands every event of the batch it read to its handler *)
(* before main looks at exit; a batch holds at most MaxBehindClose events  *)
(* behind a close event.                                                   *)
Dispatch(ev) ==
    /\ pc = "dispatch"
    /\ event' = ev
    /\ exit => behind_close < MaxBehindClose
    /\ behind_close' = IF exit THEN behind_close + 1 ELSE behind_close

(* ------------------------------ App::draw ------------------------------ *)
(* wl_surface.frame asks for one more callback; it takes effect with the   *)
(* next commit of the surface.                                             *)
RequestFrame(cb) == <<cb[1] + 1, cb[2]>>
CommitSurface(cb) == <<0, cb[1] + cb[2]>>

(* create_buffer(width, height, stride, ..) hands out height * stride bytes *)
BufferLen(w, h) == h * (w * BytesPerPixel)

Zeroed(len) == [i \in 1..len |-> 0]

(* canvas[..data.len()].copy_from_slice(data) on a cleared canvas *)
CopyFrame(cv, data) == [i \in 1..Len(cv) |-> IF i <= Len(data) THEN data[i] ELSE cv[i]]

(* The slice canvas[..n] exists only when n <= canvas.len(); otherwise the *)
(* index expression panics.                                                *)
SliceInRange(n, len) == n <= len

RequestsFrameAlways(img) == TRUE

(* only the Gif arm of draw asks for the next frame callback *)
RequestsFrame(img) == img.kind = "gif"

(* draw on a w x h surface showing frame cf, starting from callbacks cb;   *)
(* outcome is what create_buffer and attach_to answer.                     *)
Draw(w, h, cf, cb, outcome) ==
    LET data == FrameData(cf)
        cleared == Zeroed(BufferLen(w, h))
        cb1 == IF RequestsFrame(image) THEN RequestFrame(cb) ELSE cb
        reqs == IF RequestsFrame(image) THEN 1 ELSE 0
    IN  IF outcome = "create_err"
        THEN [result |-> "create_err", canvas |-> <<>>, callbacks |-> cb,
              commits |-> 0, frame_reqs |-> 0]
        ELSE IF ~SliceInRange(Len(data), Len(cleared))
        THEN [result |-> "panic", canvas |-> cleared, callbacks |-> cb,
              commits |-> 0, frame_reqs |-> 0]
        ELSE IF outcome = "attach_err"
        THEN [result |-> "attach_err", canvas |-> CopyFrame(cleared, data),
              callbacks |-> cb1, commits |-> 0, frame_reqs |-> reqs]
        ELSE [result |-> "ok", canvas |-> CopyFrame(cleared, data),
              callbacks |-> CommitSurface(cb1), commits |-> 1, frame_reqs |-> reqs]

NoDraw(cb) ==
    [result |-> "none", canvas |-> <<>>, callbacks |-> cb, commits |-> 0,
     frame_reqs |-> 0]

FinishFatal(d, before) ==
    /\ draw_result' = d.result
    /\ canvas' = d.canvas
    /\ callbacks' = d.callbacks
    /\ commits' = before + d.commits
    /\ frame_reqs' = d.frame_reqs
    /\ pc' = IF d.result \in {"panic", "create_err", "attach_err"}
             THEN "panicked" ELSE pc

(* the handler's outputs, from what its draw (or NoDraw) did after         *)
(* `before` earlier commits of the same handler                            *)
Finish(d, before) ==
    /\ draw_result' = d.result
    /\ canvas' = d.canvas
    /\ callbacks' = d.callbacks
    /\ commits' = before + d.commits
    /\ frame_reqs' = d.frame_reqs
    /\ pc' = IF d.result = "panic" THEN "panicked" ELSE pc

(* --------------------- LayerShellHandler::configure -------------------- *)
NeedsResizeOnChange(needed, len) == needed # len

NeedsResize(needed, len) == needed > len

NewPoolLenNeededOnly(needed, w, h) == needed

NewPoolLen(needed, w, h) == Max(needed, w * h * BytesPerPixel)

HasInfo(o) == o.state = "info"

ScreenSize(o) == IF o.logical_size = <<>> THEN DefaultLogicalSize ELSE o.logical_size

LeftMarginNoHalf(screen_w, tx) == screen_w - tx

LeftMargin(screen_w, tx) == (screen_w \div 2) - tx
TopMargin(screen_h, ty) == (screen_h \div 2) - ty

RedrawsOnChangeOnly(first, size_changed) == size_changed

Redraws(first, size_changed) == first \/ size_changed

EffectiveDimAsProposed(proposed, current) == proposed

(* NonZeroU32::new(proposed).map_or(current, NonZeroU32::get) *)
EffectiveDim(proposed, current) == IF proposed = 0 THEN current ELSE proposed

(* the body of configure for the proposal new_size = (pw, ph) *)
ConfigureBody(pw, ph) ==
    /\ Dispatch("configure")
    /\ callbacks[1] + callbacks[2] < MaxCallbacks   \* bound: a redraw may add one
    /\ LET new_w == EffectiveDim(pw, width)
           new_h == EffectiveDim(ph, height)
           needed == new_w * new_h * BytesPerPixel
           size_changed == new_w # width \/ new_h # height
           screen == ScreenSize(output)
           pos == positioned \/ HasInfo(output)
           redraw == Redraws(first_configure, size_changed)
           c1 == IF HasInfo(output) THEN 1 ELSE 0
           c2 == IF redraw /\ ~pos THEN 1 ELSE 0
           cb == IF c1 + c2 > 0 THEN CommitSurface(callbacks) ELSE callbacks
       IN  /\ IF NeedsResize(needed, pool)
              THEN \/ pool' = NewPoolLen(needed, width, height) /\ alloc' = "ok"
                   \/ pool' = pool /\ alloc' = "failed"  \* SlotPool::new failed
              ELSE pool' = pool /\ alloc' = "none"
           /\ width' = new_w
           /\ height' = new_h
           /\ IF HasInfo(output)
              THEN /\ anchor' = "top_left"
                   /\ margin' = <<TopMargin(screen[2], target_y),
                                  LeftMargin(screen[1], target_x)>>
              ELSE UNCHANGED <<anchor, margin>>
           /\ positioned' = pos
           /\ first_configure' = (first_configure /\ ~redraw)
           /\ IF redraw
              THEN \E outcome \in CreateOutcomes :
                     Finish(Draw(new_w, new_h, current_frame, cb, outcome), c1 + c2)
              ELSE Finish(NoDraw(cb), c1 + c2)
    /\ UNCHANGED <<exit, image, current_frame, last_frame_time, target_x,
                   target_y, now, output, observed>>
    /\ UNCHANGED <<cache_vars, pixel_vars, needed_u32>>

Configure(pw, ph) ==
    /\ ConfigureBody(pw, ph)
    /\ UNCHANGED new_size

(* configure, with the proposal it was called with kept in new_size *)
ConfigureRecorded(pw, ph) ==
    /\ ConfigureBody(pw, ph)
    /\ new_size' = <<pw, ph>>

(* ----------------------- LayerShellHandler::closed --------------------- *)
Closed ==
    /\ Dispatch("closed")
    /\ exit' = TRUE
    /\ Finish(NoDraw(callbacks), 0)
    /\ alloc' = "none"
    /\ UNCHANGED <<first_configure, positioned, pool, width, height, image,
                   current_frame, last_frame_time, target_x, target_y, now,
                   output, anchor, margin, observed>>
    /\ UNCHANGED <<cache_vars, pixel_vars, size_vars>>

(* ----------------------- CompositorHandler::frame ---------------------- *)
FrameDueStrict(elapsed, delay_ms) == elapsed > delay_ms

FrameDue(elapsed, delay_ms) == elapsed >= delay_ms

NextFrameNoWrap(cf, n) == cf + 1

NextFrame(cf, n) == (cf + 1) % n

(* the indices seen so far, kept while every notification since decode has *)
(* come one tick after the one before; <<>> once the cadence is broken     *)
Observe(obs, t, cf) ==
    IF obs # <<>> /\ Len(obs) < 4 /\ \E s \in TickSteps : t = s * Len(obs)
    THEN Append(obs, cf)
    ELSE <<>>

FrameRedrawsIfAdvanced(due) == due

(* the Gif arm calls draw after the index update, advanced or not *)
FrameRedraws(due) == TRUE

(* the body of frame, entered with frame callbacks cb outstanding; only    *)
(* the Gif arm reads the clock (t)                                         *)
FrameBody(t, cb) ==
    /\ IF IsGif
       THEN LET elapsed == t - last_frame_time
                delay_ms == image.delays[current_frame + 1]
                due == FrameDue(elapsed, delay_ms)
                cf == IF due THEN NextFrame(current_frame, NumFrames)
                             ELSE current_frame
            IN  /\ now' = t
                /\ current_frame' = cf
                /\ last_frame_time' = IF due THEN t ELSE last_frame_time
                /\ observed' = Observe(observed, t, cf)
                /\ IF FrameRedraws(due)
                   THEN \E outcome \in CreateOutcomes :
                          Finish(Draw(width, height, cf, cb, outcome), 0)
                   ELSE Finish(NoDraw(cb), 0)
       ELSE /\ Finish(NoDraw(cb), 0)
            /\ UNCHANGED <<now, current_frame, last_frame_time, observed>>
    /\ alloc' = "none"
    /\ UNCHANGED <<exit, first_configure, positioned, pool, width, height,
                   image, target_x, target_y, output, anchor, margin>>
    /\ UNCHANGED <<cache_vars, pixel_vars, size_vars>>

(* the callback the compositor fires is one that was requested and         *)
(* committed                                                               *)
Frame(t) ==
    /\ Dispatch("frame")
    /\ callbacks[2] > 0
    /\ FrameBody(t, <<callbacks[1], callbacks[2] - 1>>)

(* frame entered for a callback that this App's draw did not request: the  *)
(* handler is reached through the CompositorHandler trait whatever the     *)
(* image is                                                                *)
FrameUnrequested(t) ==
    /\ Dispatch("frame")
    /\ callbacks[2] = 0
    /\ callbacks[1] < MaxCallbacks           \* bound: a redraw may add one
    /\ FrameBody(t, callbacks)

(* ------------------------------ environment ---------------------------- *)
(* new_output / update_output / output_destroyed: the handlers are empty,  *)
(* output_state itself follows the compositor.                             *)
OutputChanged ==
    /\ Dispatch("output")
    /\ \E o \in OutputStates : o # output /\ output' = o
    /\ Finish(NoDraw(callbacks), 0)
    /\ alloc' = "none"
    /\ UNCHANGED <<exit, first_configure, positioned, pool, width, height,
                   image, current_frame, last_frame_time, target_x, target_y,
                   now, anchor, margin, observed>>
    /\ UNCHANGED <<cache_vars, pixel_vars, size_vars>>

(* blocking_dispatch returns and main finds exit set *)
LoopExit ==
    /\ pc = "dispatch"
    /\ exit
    /\ pc' = "done"
    /\ event' = "exit"
    /\ UNCHANGED <<exit, first_configure, positioned, pool, width, height,
                   image, current_frame, last_frame_time, target_x, target_y,
                   now, output, anchor, margin, callbacks, draw_result,
                   commits, frame_reqs, canvas, observed, behind_close, alloc>>
    /\ UNCHANGED <<cache_vars, pixel_vars, size_vars>>

(* a frame callback fires; the clock has moved on by one of TickSteps or   *)
(* not at all since it was last read                                       *)
FrameEvent ==
    \E t \in {now} \cup {now + s : s \in TickSteps} : t <= MaxTime /\ Frame(t)

FrameUnrequestedEvent ==
    \E t \in {now} \cup {now + s : s \in TickSteps} :
        t <= MaxTime /\ FrameUnrequested(t)

ConfigureEvent == \E pw \in ProposedDims, ph \in ProposedDims : Configure(pw, ph)

Next ==
    \/ ConfigureEvent
    \/ Closed
    \/ FrameEvent
    \/ OutputChanged
    \/ LoopExit

Spec == Init /\ [][Next]_vars

(* The same program where no output is ever announced and no target is     *)
(* given: the animation, its callbacks and the redraws.                    *)
InitAnim == InitWith(StaticImages \cup GifImages, {<< <<>>, <<>> >>})

NextAnim ==
    \/ ConfigureEvent
    \/ Closed
    \/ FrameEvent
    \/ LoopExit

SpecAnim == InitAnim /\ [][NextAnim]_vars

(* the same under a responsive compositor: a frame callback that was       *)
(* requested and committed is fired, and blocking_dispatch hands it to     *)
(* frame                                                                   *)
SpecAnimFair == SpecAnim /\ WF_vars(FrameEvent)

(* The handlers as the CompositorHandler trait lets them be called: frame  *)
(* also for callbacks no draw of this App has requested.                   *)
NextHandlers ==
    \/ ConfigureEvent
    \/ Closed
    \/ FrameEvent
    \/ FrameUnrequestedEvent
    \/ LoopExit

SpecHandlers == InitAnim /\ [][NextHandlers]_vars

(* A static image under configure events alone, each proposal kept.        *)
InitResize == InitWith(StaticImages, {<< <<>>, <<>> >>})

ConfigureRecordedEvent ==
    \E pw \in ProposedDims, ph \in ProposedDims : ConfigureRecorded(pw, ph)

NextResize ==
    \/ ConfigureRecordedEvent
    \/ Closed
    \/ LoopExit

SpecResize == InitResize /\ [][NextResize]_vars

(* The same program showing a static image: geometry, pool and placement   *)
(* under every output state and target.                                    *)
InitPlace == InitWith(StaticImages, TargetArgs)

NextPlace ==
    \/ ConfigureEvent
    \/ Closed
    \/ OutputChanged
    \/ LoopExit

SpecPlace == InitPlace /\ [][NextPlace]_vars

(* A compositor that configures the surface once and sends no further      *)
(* configure event, while outputs come, change and go.  Each event is      *)
(* handled in the step that delivers it, and main leaves its loop once     *)
(* exit is set; between events blocking_dispatch waits.                    *)
FirstConfigureEvent == first_configure /\ ConfigureEvent

NextOnce ==
    \/ FirstConfigureEvent
    \/ Closed
    \/ OutputChanged
    \/ LoopExit

SpecOnce == InitPlace /\ [][NextOnce]_vars /\ WF_vars(LoopExit)

(* ============================ cache_params.rs ========================== *)
(* Cache { history: HashMap<String, CachedParams> } is a function from     *)
(* image hashes to records.  An f32 is named by its shortest decimal, the  *)
(* form serde_json prints and reads back to the same f32; "inf" and "NaN"  *)
(* are the non-finite values the type holds as well.                       *)
Hashes == {"h1", "h2"}
Opacities == {"0.5", "1.0", "inf", "NaN"}
NonFinite == {"inf", "NaN"}
CachedParams ==
    [path_for_readability : {"a.png"}, target_x : {32}, target_y : {32},
     opacity : Opacities]
Caches == UNION {[d -> CachedParams] : d \in SUBSET Hashes}

(* Cache::default() *)
EmptyCache == <<>>

(* The cache path on disk.  parent: the directory path.parent() "exists"   *)
(* or is "missing".  file.kind: "absent"; "unreadable" (read_to_string     *)
(* fails: a directory, no permission, not UTF-8); "garbage" (text that is  *)
(* no JSON of a Cache, the empty file included); "json" with the document  *)
(* in file.doc.                                                            *)
Absent == [kind |-> "absent"]
Unreadable == [kind |-> "unreadable"]
Garbage == [kind |-> "garbage"]
JsonFile(doc) == [kind |-> "json", doc |-> doc]
InitialFs ==
    {[parent |-> "missing", file |-> Absent]}
    \cup {[parent |-> "exists", file |-> f] : f \in {Absent, Unreadable, Garbage}}

(* serde_json writes a finite float as its decimal and a non-finite one as *)
(* the JSON value null                                                     *)
JsonF32(o) == IF o \in NonFinite THEN "null" ELSE o

(* serde_json::to_string_pretty(cache): the document, as the object it     *)
(* denotes                                                                 *)
ToJson(c) ==
    [h \in DOMAIN c |->
        [path_for_readability |-> c[h].path_for_readability,
         target_x |-> c[h].target_x,
         target_y |-> c[h].target_y,
         opacity |-> JsonF32(c[h].opacity)]]

(* serde_json::from_str::<Cache>: null is no f32, the whole parse fails *)
Parses(doc) == \A h \in DOMAIN doc : doc[h].opacity # "null"
FromJson(doc) == doc

(* load_cache: read_to_string(..).unwrap_or_default(), then                *)
(* from_str(..).unwrap_or_default()                                        *)
LoadCacheResult(f) ==
    IF f.kind = "json" /\ Parses(f.doc) THEN FromJson(f.doc) ELSE EmptyCache

LoadCache ==
    /\ Len(cache_ops) < MaxOps
    /\ loaded' = LoadCacheResult(fs.file)
    /\ cache_ops' = Append(cache_ops, "load")
    /\ UNCHANGED <<cache, fs>>
    /\ UNCHANGED <<app_vars, pixel_vars, size_vars>>

(* save_cache: create_dir when the parent is missing (Err returns early),  *)
(* then fs::write of the document; a failed write may leave the file as it *)
(* was or cut short.                                                       *)
SaveCache ==
    /\ Len(cache_ops) < MaxOps
    /\ \/ /\ fs.parent = "missing"
          /\ fs' = fs                       \* create_dir failed
          /\ cache_ops' = Append(cache_ops, "save_err")
       \/ /\ fs' = [parent |-> "exists", file |-> JsonFile(ToJson(cache))]
          /\ cache_ops' = Append(cache_ops, "save_ok")
       \/ /\ \E f \in {fs.file, Garbage} : fs' = [parent |-> "exists", file |-> f]
          /\ cache_ops' = Append(cache_ops, "save_err")   \* fs::write failed
    /\ UNCHANGED <<cache, loaded>>
    /\ UNCHANGED <<app_vars, pixel_vars, size_vars>>

(* one image stands for the App that is not run here *)
IdleApp ==
    AppInit({[kind |-> "static", w |-> 1, h |-> 1, delays |-> <<>>]},
            {<< <<>>, <<>> >>})

InitCache ==
    /\ IdleApp
    /\ cache \in Caches
    /\ fs \in InitialFs
    /\ loaded = <<>>
    /\ cache_ops = <<>>
    /\ NoPixel
    /\ NoProposal

NextCache ==
    \/ SaveCache
    \/ LoadCache

SpecCache == InitCache /\ [][NextCache]_vars

(* ===================== crosshair.rs: process_buffer ==================== *)
(* One RGBA pixel and an opacity given in quarters (0, 1/4, 1/2, 1).  For  *)
(* these opacities a * opacity is exact in f32, and for every channel      *)
(* value 0..255 the f32 quotient and product of the code truncate to the   *)
(* same integer as the exact ones, so the floats are carried as fractions. *)
Channels == {0, 1, 127, 128, 255}
OpacityDen == 4
OpacityQuarters == {0, 1, 2, 4}
U8Max == 255

(* `x as u8` for a non-negative float x = num / den: the fraction is       *)
(* dropped and the value saturates at 255                                  *)
CastU8(num, den) ==
    LET t == num \div den IN IF t > U8Max THEN U8Max ELSE t

PremultiplyRgba(p, q) ==
    LET r == p[1]  g == p[2]  b == p[3]  a == p[4]
    IN  <<CastU8(r * (a * q), OpacityDen * 255),
          CastU8(g * (a * q), OpacityDen * 255),
          CastU8(b * (a * q), OpacityDen * 255),
          CastU8(a * q, OpacityDen)>>

(* the loop body of process_buffer for the pixel p = [r, g, b, a]:         *)
(* alpha_f = (a * opacity) / 255, new_a = (a * opacity) as u8,             *)
(* new_c = (c * alpha_f) as u8, pushed as [new_b, new_g, new_r, new_a]     *)
Premultiply(p, q) ==
    LET r == p[1]  g == p[2]  b == p[3]  a == p[4]
        new_a == CastU8(a * q, OpacityDen)
        new_r == CastU8(r * (a * q), OpacityDen * 255)
        new_g == CastU8(g * (a * q), OpacityDen * 255)
        new_b == CastU8(b * (a * q), OpacityDen * 255)
    IN  <<new_b, new_g, new_r, new_a>>

ProcessBuffer ==
    /\ px_data = <<>>
    /\ px_data' = Premultiply(pixel, opacity)
    /\ UNCHANGED <<pixel, opacity>>
    /\ UNCHANGED <<app_vars, cache_vars, size_vars>>

InitPixel ==
    /\ IdleApp
    /\ NoCache
    /\ NoProposal
    /\ pixel \in Channels \X Channels \X Channels \X Channels
    /\ opacity \in OpacityQuarters
    /\ px_data = <<>>

NextPixel == ProcessBuffer

SpecPixel == InitPixel /\ [][NextPixel]_vars

(* ================== configure: needed at full u32 width ================ *)
(* (new_w * new_h * 4) as usize for any proposal.  A u32 product wraps at  *)
(* 2^32; new_w * new_h * 4 is 4 * ((new_w * new_h) mod 2^30), so the value *)
(* is carried as its count of 4-byte pixels, below 2^30.                   *)
WideDims == {0, 1, 2, 1080, 1920, 32768, 65535, 65536}
PixelWrap == 2 ^ 30

(* (a * b) mod m by doubling, no intermediate value reaching 2 * m *)
RECURSIVE MulMod(_, _, _)
MulMod(a, b, m) ==
    IF b = 0
    THEN 0
    ELSE (MulMod((2 * (a % m)) % m, b \div 2, m)
            + (IF b % 2 = 1 THEN a % m ELSE 0)) % m

WrapPixels(w, h) == MulMod(w, h, PixelWrap)

(* new_w * new_h * 4 exceeds u32::MAX *)
U32Overflows(w, h) == w # 0 /\ h > (PixelWrap - 1) \div w

(* app.rs:149-153 for the proposal new_size: with overflow checks (a debug *)
(* build) an overflowing product panics, without them it wraps             *)
ComputeNeeded ==
    /\ needed_u32 = NotComputed
    /\ new_size # <<>>
    /\ LET new_w == EffectiveDim(new_size[1], width)
           new_h == EffectiveDim(new_size[2], height)
           wrapped == [result |-> "value", pixels |-> WrapPixels(new_w, new_h)]
       IN  IF U32Overflows(new_w, new_h)
           THEN needed_u32' \in {wrapped, [result |-> "panic", pixels |-> 0]}
           ELSE needed_u32' = wrapped
    /\ UNCHANGED new_size
    /\ UNCHANGED <<app_vars, cache_vars, pixel_vars>>

InitSize ==
    /\ AppInit(StaticImages, {<< <<>>, <<>> >>})
    /\ NoCache
    /\ NoPixel
    /\ new_size \in WideDims \X WideDims
    /\ needed_u32 = NotComputed

NextSize == ComputeNeeded

SpecSize == InitSize /\ [][NextSize]_vars

TypeOK ==
    /\ pc \in {"dispatch", "done", "panicked"}
    /\ exit \in BOOLEAN /\ first_configure \in BOOLEAN /\ positioned \in BOOLEAN
    /\ pool \in Nat /\ width \in Nat /\ height \in Nat
    /\ current_frame \in Nat /\ now \in 0..MaxTime
    /\ output \in OutputStates
    /\ behind_close \in 0..MaxBehindClose
    /\ event \in {"none", "configure", "closed", "frame", "output", "exit"}

(* =============================== claims ================================ *)
DrawFailed(r) == r \in {"create_err", "attach_err"}

(* C1: in every reachable state the pool's capacity is at least            *)
(* width * height * 4 bytes for the current surface width and height.      *)
C1_PoolCoversSurface == pool >= width * height * BytesPerPixel

(* C2: across any sequence of configure events the pool capacity never     *)
(* decreases: after every step it is at least what it was before.          *)
C2_PoolNeverShrinks == [][pool' >= pool]_vars

(* the pool has grown past its initial size and the surface has since      *)
(* shrunk below the pool                                                   *)
C2_GrownThenShrunk ==
    /\ pool > image.w * image.h * BytesPerPixel
    /\ width * height * BytesPerPixel < pool

RECURSIVE Advances(_, _, _)
Advances(cf, n, k) == IF k = 0 THEN cf ELSE Advances(NextFrame(cf, n), n, k - 1)

(* C3: for an animated image current_frame is always in [0, frames.len()), *)
(* and from any index frames.len() consecutive advances lead back to it.   *)
C3_FrameIndexCyclic ==
    IsGif =>
        /\ current_frame \in 0..(NumFrames - 1)
        /\ \A i \in 0..(NumFrames - 1) : Advances(i, NumFrames, NumFrames) = i

(* an animation has advanced to its last frame, or wrapped around to 0 *)
C3_AdvancedOrWrapped ==
    /\ IsGif
    /\ last_frame_time > 0
    /\ current_frame = NumFrames - 1
    /\ draw_result = "ok"

(* C4: on a frame-ready notification for an animated image, read at time  *)
(* now': if now' - last_frame_time >= the current frame's delay_ms then    *)
(* current_frame becomes (current_frame + 1) mod frames.len() and          *)
(* last_frame_time becomes now', otherwise both stay; and with delays      *)
(* [100, 200, 50] and notifications 150 ms apart from index 0 the indices  *)
(* seen are 0, 1, 1, 2.                                                    *)
C4_ScenarioIndices == <<0, 1, 1, 2>>

C4_FrameAdvanceRule ==
    /\ [](image.delays = <<100, 200, 50>> =>
            \A k \in 1..Len(observed) : observed[k] = C4_ScenarioIndices[k])
    /\ [][(event' = "frame" /\ IsGif) =>
            IF now' - last_frame_time >= image.delays[current_frame + 1]
            THEN /\ current_frame' = (current_frame + 1) % NumFrames
                 /\ last_frame_time' = now'
            ELSE UNCHANGED <<current_frame, last_frame_time>>]_vars

(* three notifications 150 ms apart have been handled for delays [100,200,50] *)
C4_ScenarioDone ==
    /\ image.delays = <<100, 200, 50>>
    /\ observed = C4_ScenarioIndices
    /\ now = 450

(* C5: a configure handled while the first output's logical size (W, H) is *)
(* known anchors the surface top-left with top margin H/2 - target_y and   *)
(* left margin W/2 - target_x, sets positioned and issues a commit; target *)
(* (32, 32) on 1920x1080 gives top 508 and left 928.                       *)
C5_MarginsCenterTarget ==
    [][(event' = "configure" /\ HasInfo(output) /\ output.logical_size # <<>>) =>
         /\ anchor' = "top_left"
         /\ margin' = <<(output.logical_size[2] \div 2) - target_y,
                        (output.logical_size[1] \div 2) - target_x>>
         /\ positioned'
         /\ commits' >= 1
         /\ (output.logical_size = <<1920, 1080>> /\ target_x = 32 /\ target_y = 32)
               => margin' = <<508, 928>>]_vars

(* the 1920x1080 example has been configured *)
C5_ExamplePositioned ==
    /\ output.logical_size = <<1920, 1080>>
    /\ target_x = 32 /\ target_y = 32
    /\ anchor = "top_left"
    /\ margin = <<508, 928>>
    /\ positioned
    /\ commits >= 1

(* C6: a configure event redraws if and only if it is the first one        *)
(* handled or its effective size differs from the current width, height.   *)
C6_RedrawIffFirstOrResized ==
    [][event' = "configure" =>
         ((draw_result' # "none") <=>
            (first_configure \/ width' # width \/ height' # height))]_vars

(* a later configure with unchanged size committed its margins and did not *)
(* redraw                                                                  *)
C6_ConfiguredWithoutRedraw ==
    /\ ~first_configure
    /\ draw_result = "none"
    /\ commits = 1

(* C7: once closed has been handled exit stays true, no geometry update,   *)
(* frame advance or redraw takes place any more.                           *)
C7_ClosedIsTerminal ==
    [][exit =>
         /\ exit'
         /\ UNCHANGED <<width, height, pool, positioned, anchor, margin,
                        current_frame, last_frame_time>>
         /\ draw_result' = "none"]_vars

(* C8: a redraw that fails at buffer creation or activation is not fatal:  *)
(* the handler returns, exit is untouched, the machine stays configured,   *)
(* a frame notification's failed redraw leaves the geometry alone, and     *)
(* every later triggering event (a frame notification, a configure that    *)
(* changes the size) redraws again whatever the redraws before it did.     *)
C8_DrawFailureNotFatal ==
    /\ [][(event' \in {"configure", "frame"} /\ DrawFailed(draw_result')) =>
            /\ pc' = "dispatch"
            /\ exit' = exit
            /\ ~first_configure'
            /\ IsGif => current_frame' \in 0..(NumFrames - 1)
            /\ event' = "frame" =>
                 UNCHANGED <<width, height, pool, positioned, anchor, margin>>]_vars
    /\ [][(\/ event' = "frame" /\ IsGif
           \/ event' = "configure" /\ (width' # width \/ height' # height)) =>
            draw_result' # "none"]_vars

(* a redraw has failed and the loop goes on *)
C8_FailedAndRunning ==
    /\ DrawFailed(draw_result)
    /\ pc = "dispatch"
    /\ ~exit
    /\ ~first_configure

(* C9: for every reachable surface size a redraw gets width * height * 4   *)
(* bytes, zeroes them and copies the current frame into them without       *)
(* exceeding the buffer; the frame's span holds the frame, the rest is 0.  *)
C9_CanvasHoldsFrame ==
    draw_result \in {"ok", "attach_err", "panic"} =>
        LET data == FrameData(current_frame)
        IN  /\ Len(canvas) = width * height * BytesPerPixel
            /\ Len(data) <= Len(canvas)
            /\ \A i \in 1..Len(canvas) :
                 canvas[i] = IF i <= Len(data) THEN data[i] ELSE 0

(* C10: a redraw of an animated image that presents its frame requests     *)
(* exactly one frame callback, and a static image never requests one.      *)
C10_OneFrameRequestPerDraw ==
    /\ (IsGif /\ draw_result = "ok") => frame_reqs = 1
    /\ ~IsGif => (frame_reqs = 0 /\ callbacks = <<0, 0>>)

(* an animated image has been presented with its follow-up requested *)
C10_GifPresented ==
    /\ IsGif
    /\ draw_result = "ok"
    /\ frame_reqs = 1
    /\ callbacks[2] >= 1

(* C11: save_cache(path, m) followed by load_cache(path) yields a mapping  *)
(* equal to m, for every cache mapping m; and load_cache on a path that is *)
(* absent, unreadable or unparsable yields the empty mapping.              *)
C11_CacheRoundTrips ==
    LET n == Len(cache_ops)
    IN  /\ (n >= 2 /\ cache_ops[n] = "load" /\ cache_ops[n - 1] = "save_ok")
              => loaded = cache
        /\ (n >= 1 /\ cache_ops[n] = "load"
               /\ fs.file.kind \in {"absent", "unreadable", "garbage"})
              => loaded = EmptyCache

(* C12: a pixel (r, g, b, 255) at opacity 1 comes out as (b, g, r, 255),   *)
(* and any pixel at opacity 0 comes out as (0, 0, 0, 0).                   *)
C12_PremultiplyEndpoints ==
    px_data # <<>> =>
        /\ (opacity = OpacityDen /\ pixel[4] = 255)
              => px_data = <<pixel[3], pixel[2], pixel[1], 255>>
        /\ opacity = 0 => px_data = <<0, 0, 0, 0>>

(* an opaque pixel with three different channels went through at opacity 1 *)
C12_OpaquePixelDone ==
    /\ pixel = <<1, 127, 128, 255>>
    /\ opacity = OpacityDen
    /\ px_data = <<128, 127, 1, 255>>

(* round(num / den) for a non-negative fraction, halves upwards *)
RoundNearest(num, den) == (2 * num + den) \div (2 * den)

(* C13: for every pixel and opacity the emitted bytes are                  *)
(* a' = round(a * o) and c' = round(c * (a * o) / 255) for c = r, g, b,    *)
(* rounded to the nearest integer, in the order (b', g', r', a').          *)
C13_RoundsToNearest ==
    px_data # <<>> =>
        px_data = <<RoundNearest(pixel[3] * pixel[4] * opacity, OpacityDen * 255),
                    RoundNearest(pixel[2] * pixel[4] * opacity, OpacityDen * 255),
                    RoundNearest(pixel[1] * pixel[4] * opacity, OpacityDen * 255),
                    RoundNearest(pixel[4] * opacity, OpacityDen)>>

(* C14 as stated: a configure event with bytes_needed = new_w * new_h * 4  *)
(* replaces the pool if and only if bytes_needed > current capacity; when  *)
(* replaced the new capacity is max(bytes_needed, previous_width *         *)
(* previous_height * 4); otherwise the pool is left unchanged.             *)
C14_ReplacedIffNeeded ==
    [][event' = "configure" =>
         LET bytes_needed == width' * height' * BytesPerPixel
         IN  /\ (alloc' = "ok") <=> (bytes_needed > pool)
             /\ alloc' = "ok" =>
                  pool' = Max(bytes_needed, width * height * BytesPerPixel)
             /\ bytes_needed <= pool => pool' = pool]_vars

(* C14: a configure event with bytes_needed = new_w * new_h * 4 asks for a *)
(* new pool if and only if bytes_needed > current capacity; when           *)
(* SlotPool::new succeeds the pool is replaced by one of                   *)
(* max(bytes_needed, previous_width * previous_height * 4) bytes; when it  *)
(* fails, or when bytes_needed <= current capacity, the pool is unchanged. *)
C14_ReplacedWhenNeededAndAllocated ==
    [][event' = "configure" =>
         LET bytes_needed == width' * height' * BytesPerPixel
         IN  /\ (alloc' \in {"ok", "failed"}) <=> (bytes_needed > pool)
             /\ alloc' = "ok" =>
                  pool' = Max(bytes_needed, width * height * BytesPerPixel)
             /\ alloc' # "ok" => pool' = pool]_vars

(* a pool was replaced by one as large as the previous surface, larger     *)
(* than the new surface needs                                              *)
C14_GrewToPreviousSize ==
    /\ event = "configure"
    /\ alloc = "ok"
    /\ pool > width * height * BytesPerPixel

(* C15: a frame-ready notification on an animated image always redraws,   *)
(* whether or not the frame index advanced; on a static image it changes   *)
(* no state (geometry, pool, positioned, exit), redraws nothing and makes  *)
(* no compositor call.                                                     *)
C15_FrameRedrawsOnlyAnimated ==
    [][event' = "frame" =>
         IF IsGif
         THEN draw_result' # "none"
         ELSE /\ UNCHANGED <<width, height, pool, positioned, exit,
                             first_configure, anchor, margin, current_frame,
                             last_frame_time, callbacks>>
              /\ draw_result' = "none"
              /\ commits' = 0
              /\ frame_reqs' = 0]_vars

(* a static image has been configured and has then had a frame-ready       *)
(* notification                                                            *)
C15_StaticFrameHandled ==
    /\ ~IsGif
    /\ ~first_configure
    /\ event = "frame"

(* C16: in a configure event a proposed width of 0 leaves the width as it  *)
(* is and a proposed height of 0 leaves the height as it is, each          *)
(* dimension on its own; a proposal of (0, 0) is never a size change (it   *)
(* redraws only as the first configure); and a non-zero proposed dimension *)
(* is the dimension afterwards.                                            *)
C16_ZeroKeepsDimension ==
    [][event' = "configure" =>
         /\ width' = IF new_size'[1] = 0 THEN width ELSE new_size'[1]
         /\ height' = IF new_size'[2] = 0 THEN height ELSE new_size'[2]
         /\ new_size' = <<0, 0>> =>
              /\ UNCHANGED <<width, height>>
              /\ ~first_configure => draw_result' = "none"]_vars

(* a configure proposing width 0 and another height has kept the width     *)
(* that an earlier configure had changed                                   *)
C16_WidthKeptHeightTaken ==
    /\ event = "configure"
    /\ new_size[1] = 0
    /\ new_size[2] # 0
    /\ width # image.w
    /\ height = new_size[2]
    /\ height # width

(* C17: for an animated image, once the first redraw has been attempted    *)
(* and while the compositor fires every frame callback requested of it, a  *)
(* further redraw is always eventually attempted (until the surface is     *)
(* closed), also after a redraw that failed at buffer creation or          *)
(* activation.                                                             *)
C17_AnimationNeverStalls ==
    \/ [](~IsGif \/ first_configure)
    \/ <>(exit \/ pc # "dispatch")
    \/ []<><<event' \in {"frame", "configure"} /\ draw_result' # "none">>_vars

(* C18: for an animated image at most one frame callback is outstanding    *)
(* (requested or committed and not yet fired) at any time, under every     *)
(* interleaving of configure events and frame-ready notifications.         *)
C18_AtMostOneCallback == IsGif => callbacks[1] + callbacks[2] <= 1

(* C19: when the first output's logical size becomes known only after the  *)
(* first configure event has been handled, the surface is eventually       *)
(* positioned (until it is closed) without a further configure event.      *)
C19_EventuallyPositioned ==
    [](( /\ ~first_configure
         /\ ~positioned
         /\ HasInfo(output) /\ output.logical_size # <<>>
         /\ pc = "dispatch" /\ ~exit )
       => <>(positioned \/ exit \/ pc # "dispatch"))

(* C20: for every proposed configure size the byte requirement             *)
(* new_w * new_h * 4 computed in u32 arithmetic is the mathematical        *)
(* product: the multiplication neither overflows nor wraps.                *)
C20_NeededIsExactProduct ==
    needed_u32 # NotComputed =>
        LET new_w == EffectiveDim(new_size[1], width)
            new_h == EffectiveDim(new_size[2], height)
        IN  /\ needed_u32.result = "value"
            /\ needed_u32.pixels % new_w = 0
            /\ needed_u32.pixels \div new_w = new_h

====
